---- MODULE Spec2Model ----
(***************************************************************************)
(* Model of packages/shared/python-client/setup.py, the distribution       *)
(* descriptor of async-agent-client.                                       *)
(*                                                                         *)
(* Spec         evaluates the descriptor statement by statement against a  *)
(*              file system (README.md present or absent, a tree of        *)
(*              directories holding an __init__.py).  The file system does *)
(*              not change while the descriptor is evaluated.              *)
(* SpecInstall  takes the metadata the descriptor hands to setup() and     *)
(*              applies its version constraints (python_requires,          *)
(*              install_requires) to interpreter and distribution versions.*)
(*                                                                         *)
(* Python strings that the code only passes along are TLA+ strings; the    *)
(* ones that are parsed or matched (version specifiers, package names,     *)
(* exclude patterns) are taken apart as character sequences, Chars(s).     *)
(***************************************************************************)
EXTENDS Integers, Sequences, FiniteSets, TLC

VARIABLES
    pc,               \* position in setup.py
    readmeExists,     \* file system: README.md is a file of the working directory
    readmeText,       \* file system: its text
    tree,             \* file system: the directories (paths) that hold an __init__.py
    VERSION,          \* the module-level name VERSION
    arg_version,      \* the evaluated keyword argument version=
    opened,           \* number of open() calls made
    handle,           \* read position of the open file object
    long_description, \* the evaluated keyword argument long_description=
    packages,         \* the evaluated keyword argument packages=
    meta,             \* what setup() received
    checking,         \* installer: which constraint was applied last
    reqName,          \* installer: the distribution the requirement names
    candidate,        \* installer: the version the constraint was applied to
    admitted          \* installer: the constraint's verdict

vars == <<pc, readmeExists, readmeText, tree, VERSION, arg_version, opened, handle,
          long_description, packages, meta, checking, reqName, candidate, admitted>>

fsVars == <<readmeExists, readmeText, tree>>
installVars == <<checking, reqName, candidate, admitted>>

(***************************************************************************)
(* Bounds of the model.                                                    *)
(***************************************************************************)
MaxLen == 2     \* longest README.md text
MaxDirs == 4    \* most directories with an __init__.py in one tree
MaxMinor == 13  \* largest minor (and major.minor) component of an interpreter version
MaxPatch == 2   \* largest patch level of an interpreter version

(***************************************************************************)
(* Strings as character sequences.                                         *)
(***************************************************************************)
Chars(s) ==
    CASE s = "" -> <<>>
      [] s = ">=3.8" -> <<">", "=", "3", ".", "8">>
      [] s = ">=3.9" -> <<">", "=", "3", ".", "9">>
      [] s = "httpx>=0.23.0" ->
            <<"h", "t", "t", "p", "x", ">", "=", "0", ".", "2", "3", ".", "0">>
      [] s = "httpx==0.23.0" ->
            <<"h", "t", "t", "p", "x", "=", "=", "0", ".", "2", "3", ".", "0">>
      [] s = "attrs>=21.3.0" ->
            <<"a", "t", "t", "r", "s", ">", "=", "2", "1", ".", "3", ".", "0">>
      [] s = "python-dateutil>=2.8.0" ->
            <<"p", "y", "t", "h", "o", "n", "-", "d", "a", "t", "e", "u", "t", "i", "l",
              ">", "=", "2", ".", "8", ".", "0">>
      [] s = "httpx" -> <<"h", "t", "t", "p", "x">>
      [] s = "attrs" -> <<"a", "t", "t", "r", "s">>
      [] s = "python-dateutil" ->
            <<"p", "y", "t", "h", "o", "n", "-", "d", "a", "t", "e", "u", "t", "i", "l">>
      [] s = "3" -> <<"3">>
      [] s = "3.8" -> <<"3", ".", "8">>
      [] s = "3.9" -> <<"3", ".", "9">>
      [] s = "3.10" -> <<"3", ".", "1", "0">>
      [] s = "3.11" -> <<"3", ".", "1", "1">>
      [] s = "3.12" -> <<"3", ".", "1", "2">>
      [] s = "tests" -> <<"t", "e", "s", "t", "s">>
      [] s = "tests." -> <<"t", "e", "s", "t", "s", ".">>
      [] s = "tests.*" -> <<"t", "e", "s", "t", "s", ".", "*">>
      [] s = "tests*" -> <<"t", "e", "s", "t", "s", "*">>
      [] s = "*" -> <<"*">>
      [] s = "client" -> <<"c", "l", "i", "e", "n", "t">>
      [] s = "tests_util" -> <<"t", "e", "s", "t", "s", "_", "u", "t", "i", "l">>
      [] s = "v1.0" -> <<"v", "1", ".", "0">>

StartsWith(s, prefix) ==
    /\ Len(s) >= Len(prefix)
    /\ SubSeq(s, 1, Len(prefix)) = prefix

(***************************************************************************)
(* The literals of the descriptor.                                         *)
(***************************************************************************)
name == "async-agent-client"
version_literal == "0.1.0"
where == <<>>
exclude_exact == <<"tests">>
exclude_prefix == <<"tests", "tests*">>
exclude == <<"tests", "tests.*">>
include == <<"*">>
python_requires_39 == ">=3.9"
python_requires == ">=3.8"
install_requires_pinned == <<"httpx==0.23.0", "attrs>=21.3.0", "python-dateutil>=2.8.0">>
install_requires == <<"httpx>=0.23.0", "attrs>=21.3.0", "python-dateutil>=2.8.0">>
\* each classifier as its " :: "-separated segments
classifiers_stale ==
    << <<"Development Status", "3 - Alpha">>,
       <<"Intended Audience", "Developers">>,
       <<"License", "OSI Approved", "MIT License">>,
       <<"Programming Language", "Python", "3">>,
       <<"Programming Language", "Python", "3.8">>,
       <<"Programming Language", "Python", "3.9">>,
       <<"Programming Language", "Python", "3.10">>,
       <<"Programming Language", "Python", "3.11">> >>
classifiers ==
    << <<"Development Status", "3 - Alpha">>,
       <<"Intended Audience", "Developers">>,
       <<"License", "OSI Approved", "MIT License">>,
       <<"Programming Language", "Python", "3">>,
       <<"Programming Language", "Python", "3.8">>,
       <<"Programming Language", "Python", "3.9">>,
       <<"Programming Language", "Python", "3.10">>,
       <<"Programming Language", "Python", "3.11">>,
       <<"Programming Language", "Python", "3.12">> >>

(***************************************************************************)
(* The file systems the descriptor is evaluated against.                   *)
(***************************************************************************)
ReadmeAlphabet == {"#", "\n"}
ReadmeTexts == UNION {[1..n -> ReadmeAlphabet] : n \in 0..MaxLen}
DirNames == {"tests", "client", "tests_util", "v1.0"}
PathUniverse ==
    { <<"tests">>, <<"tests", "client">>, <<"tests", "client", "tests_util">>,
      <<"client">>, <<"client", "tests">>, <<"client", "tests", "client">>,
      <<"tests_util">>, <<"tests_util", "tests">>,
      <<"v1.0">>, <<"v1.0", "client">>, <<"client", "v1.0">> }
Trees == {t \in SUBSET PathUniverse : Cardinality(t) <= MaxDirs}

IsPrefix(p, q) == Len(p) <= Len(q) /\ SubSeq(q, 1, Len(p)) = p
\* the directories that exist: those with an __init__.py and their ancestors
DirExists(t, d) == \E q \in t : IsPrefix(d, q)

(***************************************************************************)
(* fnmatch.fnmatchcase for patterns of literals, "?" and "*".              *)
(***************************************************************************)
RECURSIVE fnmatchcase(_, _)
fnmatchcase(s, pat) ==
    IF pat = <<>> THEN s = <<>>
    ELSE IF Head(pat) = "*"
         THEN fnmatchcase(s, Tail(pat)) \/ (s # <<>> /\ fnmatchcase(Tail(s), pat))
         ELSE /\ s # <<>>
              /\ (Head(pat) = "?" \/ Head(pat) = Head(s))
              /\ fnmatchcase(Tail(s), Tail(pat))

build_filter(patterns, s) ==
    \E i \in 1..Len(patterns) : fnmatchcase(s, Chars(patterns[i]))

(***************************************************************************)
(* setuptools.find_packages: the walk from `root`, top down.               *)
(***************************************************************************)
RECURSIVE package_name(_)
package_name(path) ==
    IF Len(path) = 1 THEN Chars(path[1])
    ELSE package_name(SubSeq(path, 1, Len(path) - 1)) \o <<".">> \o Chars(path[Len(path)])

looks_like_package(t, d) == d \in t

RECURSIVE find_iter(_, _, _, _)
find_iter(t, root, excl, incl) ==
    UNION { LET full_path == Append(root, dir)
                package == package_name(full_path)
            IN  IF ~DirExists(t, full_path) THEN {}
                ELSE IF (\E i \in 1..Len(Chars(dir)) : Chars(dir)[i] = ".")
                        \/ ~looks_like_package(t, full_path)
                     THEN {}
                     ELSE (IF build_filter(incl, package) /\ ~build_filter(excl, package)
                           THEN {package} ELSE {})
                          \cup find_iter(t, full_path, excl, incl)
          : dir \in DirNames }

find_packages(t) == find_iter(t, where, exclude, include)

(***************************************************************************)
(* The file object of open("README.md").                                   *)
(***************************************************************************)
os_path_exists_always == TRUE
os_path_exists == readmeExists
file_read(text, pos) == SubSeq(text, pos + 1, Len(text))

(***************************************************************************)
(* The keyword arguments of setup().                                       *)
(***************************************************************************)
setup(ver, ld, pkgs) ==
    [ name |-> name,
      version |-> ver,
      description |-> "Python client for Async Agent API",
      long_description |-> ld,
      long_description_content_type |-> "text/markdown",
      author |-> "Async Agent Team",
      license |-> "MIT",
      packages |-> pkgs,
      python_requires |-> python_requires,
      install_requires |-> install_requires,
      classifiers |-> classifiers,
      keywords |-> "async-agent api-client openapi" ]

Unbound == "<unbound>"
NotCalled ==
    [ name |-> "", version |-> Unbound, description |-> "", long_description |-> <<>>,
      long_description_content_type |-> "", author |-> "", license |-> "",
      packages |-> {}, python_requires |-> "", install_requires |-> <<>>,
      classifiers |-> <<>>, keywords |-> "" ]

(***************************************************************************)
(* Evaluation of setup.py.                                                 *)
(***************************************************************************)
Init ==
    /\ pc = "start"
    /\ readmeExists \in BOOLEAN
    /\ readmeText \in (IF readmeExists THEN ReadmeTexts ELSE {<<>>})
    /\ tree \in Trees
    /\ VERSION = Unbound
    /\ arg_version = Unbound
    /\ opened = 0
    /\ handle = 0
    /\ long_description = <<>>
    /\ packages = {}
    /\ meta = NotCalled
    /\ checking = "none"
    /\ reqName = <<>>
    /\ candidate = <<>>
    /\ admitted = FALSE

\* line 4: VERSION = "0.1.0"
AssignVersion ==
    /\ pc = "start"
    /\ VERSION' = version_literal
    /\ pc' = "version"
    /\ UNCHANGED <<fsVars, arg_version, opened, handle, long_description, packages,
                   meta, installVars>>

\* line 8: version=VERSION
EvalVersion ==
    /\ pc = "version"
    /\ arg_version' = VERSION
    /\ pc' = "long_description"
    /\ UNCHANGED <<fsVars, VERSION, opened, handle, long_description, packages,
                   meta, installVars>>

\* line 10: the condition of the conditional expression, and its else branch
ExistsReadme ==
    /\ pc = "long_description"
    /\ IF os_path_exists
       THEN pc' = "open" /\ UNCHANGED long_description
       ELSE pc' = "packages" /\ long_description' = Chars("")
    /\ UNCHANGED <<fsVars, VERSION, arg_version, opened, handle, packages,
                   meta, installVars>>

\* line 10: open("README.md"); FileNotFoundError ends the evaluation
OpenReadme ==
    /\ pc = "open"
    /\ opened' = opened + 1
    /\ handle' = 0
    /\ pc' = (IF readmeExists THEN "read" ELSE "raised")
    /\ UNCHANGED <<fsVars, VERSION, arg_version, long_description, packages,
                   meta, installVars>>

\* line 10: .read()
ReadReadmeRebind ==
    /\ pc = "read"
    /\ long_description' = file_read(readmeText, handle)
    /\ handle' = Len(readmeText)
    /\ VERSION' = "0.0.0"
    /\ pc' = "packages"
    /\ UNCHANGED <<fsVars, arg_version, opened, packages, meta, installVars>>

ReadReadme ==
    /\ pc = "read"
    /\ long_description' = file_read(readmeText, handle)
    /\ handle' = Len(readmeText)
    /\ pc' = "packages"
    /\ UNCHANGED <<fsVars, VERSION, arg_version, opened, packages, meta, installVars>>

\* line 14: packages=find_packages(where=".", exclude=["tests", "tests.*"])
FindPackages ==
    /\ pc = "packages"
    /\ packages' = find_packages(tree)
    /\ pc' = "setup"
    /\ UNCHANGED <<fsVars, VERSION, arg_version, opened, handle, long_description,
                   meta, installVars>>

\* lines 6-33: the call
CallSetup ==
    /\ pc = "setup"
    /\ meta' = setup(arg_version, long_description, packages)
    /\ pc' = "done"
    /\ UNCHANGED <<fsVars, VERSION, arg_version, opened, handle, long_description,
                   packages, installVars>>

Next ==
    \/ AssignVersion
    \/ EvalVersion
    \/ ExistsReadme
    \/ OpenReadme
    \/ ReadReadme
    \/ FindPackages
    \/ CallSetup

Spec == Init /\ [][Next]_vars

(***************************************************************************)
(* Version specifiers (PEP 440) as the installer applies them.             *)
(***************************************************************************)
DigitChars == <<"0", "1", "2", "3", "4", "5", "6", "7", "8", "9">>
DigitValue(c) == (CHOOSE i \in 1..10 : DigitChars[i] = c) - 1

RECURSIVE ParseInt(_)
ParseInt(cs) ==
    IF cs = <<>> THEN 0
    ELSE 10 * ParseInt(SubSeq(cs, 1, Len(cs) - 1)) + DigitValue(cs[Len(cs)])

RECURSIVE Split(_, _)
Split(cs, sep) ==
    IF \A i \in 1..Len(cs) : cs[i] # sep THEN <<cs>>
    ELSE LET k == CHOOSE i \in 1..Len(cs) : cs[i] = sep /\ \A j \in 1..(i - 1) : cs[j] # sep
         IN  <<SubSeq(cs, 1, k - 1)>> \o Split(SubSeq(cs, k + 1, Len(cs)), sep)

\* Version(...).release
ParseVersion(cs) ==
    LET parts == Split(cs, ".") IN [i \in 1..Len(parts) |-> ParseInt(parts[i])]

OperatorChars == {"<", ">", "=", "!", "~"}
\* length of the longest prefix of cs whose characters (do not) belong to OperatorChars
RECURSIVE Span(_, _)
Span(cs, inOps) ==
    IF cs = <<>> \/ ((Head(cs) \in OperatorChars) # inOps) THEN 0
    ELSE 1 + Span(Tail(cs), inOps)

RequirementName(cs) == SubSeq(cs, 1, Span(cs, FALSE))
RequirementSpecifier(cs) == SubSeq(cs, Span(cs, FALSE) + 1, Len(cs))
SpecifierOperator(cs) == SubSeq(cs, 1, Span(cs, TRUE))
SpecifierVersion(cs) == ParseVersion(SubSeq(cs, Span(cs, TRUE) + 1, Len(cs)))

\* comparison of two release components
IntLess(a, b) == a < b

\* the comparison key of a release: trailing zeros dropped
RECURSIVE ReleaseKey(_)
ReleaseKey(v) ==
    IF v # <<>> /\ v[Len(v)] = 0 THEN ReleaseKey(SubSeq(v, 1, Len(v) - 1)) ELSE v

\* tuple comparison
RECURSIVE TupleLess(_, _)
TupleLess(a, b) ==
    IF b = <<>> THEN FALSE
    ELSE IF a = <<>> THEN TRUE
    ELSE IF Head(a) # Head(b) THEN IntLess(Head(a), Head(b))
    ELSE TupleLess(Tail(a), Tail(b))

VersionLess(v, w) == TupleLess(ReleaseKey(v), ReleaseKey(w))

SpecifierContains(spec, v) ==
    LET op == SpecifierOperator(spec)
        w == SpecifierVersion(spec)
    IN  CASE op = <<">", "=">> -> ~VersionLess(v, w)
          [] op = <<"<", "=">> -> ~VersionLess(w, v)
          [] op = <<">">> -> VersionLess(w, v)
          [] op = <<"<">> -> VersionLess(v, w)
          [] op = <<"=", "=">> -> ReleaseKey(v) = ReleaseKey(w)
          [] op = <<"!", "=">> -> ReleaseKey(v) # ReleaseKey(w)

\* the minor versions the classifiers list
ClassifierVersions ==
    { ParseVersion(Chars(classifiers[i][3])) :
        i \in { j \in 1..Len(classifiers) :
                  /\ Len(classifiers[j]) = 3
                  /\ classifiers[j][1] = "Programming Language"
                  /\ classifiers[j][2] = "Python"
                  /\ Len(ParseVersion(Chars(classifiers[j][3]))) = 2 } }

(***************************************************************************)
(* The versions the constraints are applied to.                            *)
(***************************************************************************)
InterpreterVersions == (2..4) \X (0..MaxMinor) \X (0..MaxPatch)
DistComponents == {0, 2, 3, 8, 9, 21, 23, 100}
DistVersions == (DistComponents \X DistComponents)
                  \cup (DistComponents \X DistComponents \X DistComponents)

\* Requires-Python against the running interpreter
CheckPython ==
    /\ pc = "done"
    /\ checking = "none"
    /\ \E v \in InterpreterVersions :
          /\ candidate' = v
          /\ admitted' = SpecifierContains(Chars(meta.python_requires), v)
    /\ checking' = "python"
    /\ reqName' = <<>>
    /\ UNCHANGED <<pc, fsVars, VERSION, arg_version, opened, handle, long_description,
                   packages, meta>>

\* one Requires-Dist against a version of the distribution it names
CheckRequirement ==
    /\ pc = "done"
    /\ checking = "none"
    /\ \E i \in 1..Len(meta.install_requires), v \in DistVersions :
          LET req == Chars(meta.install_requires[i])
          IN  /\ reqName' = RequirementName(req)
              /\ candidate' = v
              /\ admitted' = SpecifierContains(RequirementSpecifier(req), v)
    /\ checking' = "requirement"
    /\ UNCHANGED <<pc, fsVars, VERSION, arg_version, opened, handle, long_description,
                   packages, meta>>

InitInstall ==
    /\ Init
    /\ readmeExists
    /\ readmeText = <<"#">>
    /\ tree = {<<"client">>}

NextInstall ==
    \/ Next
    \/ CheckPython
    \/ CheckRequirement

SpecInstall == InitInstall /\ [][NextInstall]_vars

(***************************************************************************)
(* Properties.                                                             *)
(***************************************************************************)
IsTestsName(n) == n = Chars("tests") \/ StartsWith(n, Chars("tests."))

\* the directories the walk can reach: every ancestor holds an __init__.py and
\* no component has a dot in its name
Discovered(t) ==
    { p \in t : \A k \in 1..Len(p) :
                   /\ SubSeq(p, 1, k) \in t
                   /\ \A i \in 1..Len(Chars(p[k])) : Chars(p[k])[i] # "." }

\* C1: the package list passed to setup() holds neither `tests` nor any
\* sub-package of the top-level `tests` package, at any depth.
C1_NoTestsPackage ==
    /\ pc \in {"setup", "done"} => \A n \in packages : ~IsTestsName(n)
    /\ pc = "done" => \A n \in meta.packages : ~IsTestsName(n)

C1_Witness ==
    /\ pc = "done"
    /\ {<<"tests">>, <<"tests", "client">>, <<"tests", "client", "tests_util">>,
        <<"client">>} \subseteq tree
    /\ meta.packages = {Chars("client")}

C5_NameAndVersion ==
    /\ pc # "start" => VERSION = "0.1.0"
    /\ pc \notin {"start", "version"} => arg_version = VERSION
    /\ pc = "done" => /\ meta.name = "async-agent-client"
                      /\ meta.version = "0.1.0"
                      /\ meta.version = VERSION

C5_Witness ==
    /\ pc = "done"
    /\ readmeExists
    /\ readmeText # <<>>
    /\ tree # {}
    /\ meta.version = "0.1.0"

\* C6: the evaluation never raises for a missing README.md; without README.md
\* long_description is empty and nothing was opened, with it long_description
\* is its whole text; every other field is the same in both cases.
C6_ReadmeOptional ==
    /\ pc # "raised"
    /\ pc \in {"packages", "setup", "done"} =>
          IF readmeExists
          THEN long_description = readmeText /\ opened = 1
          ELSE long_description = <<>> /\ opened = 0
    /\ pc = "done" =>
          /\ meta.long_description = (IF readmeExists THEN readmeText ELSE <<>>)
          /\ [meta EXCEPT !.long_description = <<>>]
                = setup("0.1.0", <<>>, find_packages(tree))

C6_Witness ==
    /\ pc = "done"
    /\ ~readmeExists
    /\ opened = 0
    /\ meta.long_description = <<>>
    /\ meta.packages # {}

\* C2: python_requires admits every interpreter 3.8.x to 3.12.x and rejects
\* every interpreter below 3.8.
C2_PythonAdmitted ==
    checking = "python" =>
        /\ (candidate[1] = 3 /\ candidate[2] \in 8..12) => admitted
        /\ (candidate[1] < 3 \/ (candidate[1] = 3 /\ candidate[2] < 8)) => ~admitted

C2_Witness ==
    /\ checking = "python"
    /\ candidate = <<3, 10, 1>>
    /\ admitted

SupportedMinors == {<<3, m>> : m \in 8..12}

\* C3 as stated: the minor versions python_requires admits are exactly the
\* ones the classifiers list, 3.8 to 3.12.
C3_AdmittedIsClassified ==
    /\ ClassifierVersions = SupportedMinors
    /\ (checking = "python" /\ candidate[1] = 3) =>
          (admitted <=> <<3, candidate[2]>> \in ClassifierVersions)

\* C3 as amended: the classifiers list 3.8 to 3.12, python_requires admits each
\* of them and no 3.x below 3.8, and it admits every 3.x above 3.12 as well.
C3_ClassifiedIsAdmitted ==
    /\ ClassifierVersions = SupportedMinors
    /\ (checking = "python" /\ candidate[1] = 3) =>
          /\ <<3, candidate[2]>> \in ClassifierVersions => admitted
          /\ candidate[2] < 8 => ~admitted
          /\ candidate[2] > 12 => admitted

C3_Witness ==
    /\ checking = "python"
    /\ candidate = <<3, 13, 0>>
    /\ admitted

Pad3(v) == [i \in 1..3 |-> IF i <= Len(v) THEN v[i] ELSE 0]
AtLeast(v, b) ==
    LET p == Pad3(v)
    IN  \/ p[1] > b[1]
        \/ p[1] = b[1] /\ p[2] > b[2]
        \/ p[1] = b[1] /\ p[2] = b[2] /\ p[3] >= b[3]
LowerBound(n) ==
    CASE n = Chars("httpx") -> <<0, 23, 0>>
      [] n = Chars("attrs") -> <<21, 3, 0>>
      [] n = Chars("python-dateutil") -> <<2, 8, 0>>

\* C4: there are exactly three requirements, on httpx, attrs and
\* python-dateutil, and a version satisfies one exactly when it is at least
\* 0.23.0, 21.3.0, 2.8.0, its components compared as integers.
C4_LowerBoundsOnly ==
    /\ pc = "done" =>
          /\ Len(meta.install_requires) = 3
          /\ { RequirementName(Chars(meta.install_requires[i])) : i \in 1..3 }
                = {Chars("httpx"), Chars("attrs"), Chars("python-dateutil")}
          /\ Cardinality({Chars("httpx"), Chars("attrs"), Chars("python-dateutil")}) = 3
    /\ checking = "requirement" =>
          /\ reqName \in {Chars("httpx"), Chars("attrs"), Chars("python-dateutil")}
          /\ admitted <=> AtLeast(candidate, LowerBound(reqName))

C4_Witness ==
    /\ checking = "requirement"
    /\ reqName = Chars("httpx")
    /\ candidate = <<0, 100, 0>>
    /\ admitted

====
